---- MODULE Spec2Model ----
(***************************************************************************)
(* Chat server protocol engine (src/server/mod.rs and                      *)
(* src/server/server_message_handling.rs) as a state machine.              *)
(*                                                                         *)
(* A 64-bit channel id is kept as its two 32-bit halves [hi, lo] so that   *)
(* `node << 32 | 0x8` is computed, not assumed.  A BiHashMap is a set of   *)
(* <<left, right>> pairs with the overwrite-on-insert semantics of the     *)
(* bimap crate.  Vectors built by iterating a HashMap/HashSet are          *)
(* sequences in an arbitrary order of the iterated set; the channel list   *)
(* carried by a ChannelsList and a channel's client list are kept as sets. *)
(* `replies` is the vector returned for the message handled last, `last`   *)
(* is that message (with the sender's memberships when it arrived) and     *)
(* `handled` counts the messages handled so far.                           *)
(*                                                                         *)
(* Spec drives the server alone with arbitrary inbound messages.  SpecIds  *)
(* applies the channel id computations of server and client to drawn       *)
(* inputs.  SpecSys runs the client engines (src/client/mod.rs and         *)
(* src/client/client_command_handling.rs) against the server over one      *)
(* in-order queue per client and direction.  SpecClient feeds one client   *)
(* engine every sampled message, command and typed line                    *)
(* (src/client/client_message_handling.rs).  SpecSolo is one client with   *)
(* the server, its user typing connect, register and unregister lines.     *)
(* SpecRejoin is the server handling registrations, joins and leaves.      *)
(***************************************************************************)
EXTENDS Integers, Sequences, FiniteSets, TLC

VARIABLES channels, channel_info, usernames, replies, last, handled,
          clients, net, commands, id_in, id_out, cl_in, cl_out

svars == <<channels, channel_info, usernames, replies, last, handled>>
\* one ChatClientInternal per client node, the messages in flight between
\* the clients and the server, and the number of commands typed so far
cvars == <<clients, net, commands>>
\* inputs and results of the channel id computations
ivars == <<id_in, id_out>>
\* the input a client engine driven on its own handled last, and the
\* messages and events it returned for it
ovars == <<cl_in, cl_out>>
vars == <<svars, cvars, ivars, ovars>>

(* ------------------------------ bounds --------------------------------- *)
MaxNode == 2
MaxGroups == 2
MaxMessages == 3

Nodes == 1..MaxNode
ServerId == 0
OwnIds == Nodes
\* The server accepts any string as a username, the empty one included.
Names == {"All", "a", ""}
JoinNames == Names \cup {"b"}
\* the server takes a RegisterRequest from any node, with any string
RegisterNames == Names \cup {"a b"}
Texts == {"hi"}

(* --------------------------- 64-bit values ----------------------------- *)
U64(hi, lo) == [hi |-> hi, lo |-> lo]
NoChannel == U64(-1, -1)

RECURSIVE BitOr(_, _)
BitOr(a, b) ==
    IF a = 0 THEN b
    ELSE IF b = 0 THEN a
    ELSE (IF a % 2 = 1 \/ b % 2 = 1 THEN 1 ELSE 0) + 2 * BitOr(a \div 2, b \div 2)

Shl32(x) == U64(x.lo, 0)
OrLow(x, m) == U64(x.hi, BitOr(x.lo, m))
ClearLow4(x) == U64(x.hi, x.lo - (x.lo % 16))
Tag(id) == id.lo % 16

ALL_ID == U64(0, 1)
personal_channel_of(k) == OrLow(Shl32(U64(0, k)), 8)
RandU64 == {U64(0, 16 * g + 15) : g \in 0..(MaxGroups - 1)}
\* new_group_channel_id without the `| 0x2`.
new_group_channel_id_untagged(r) == ClearLow4(r)

new_group_channel_id(r) == OrLow(ClearLow4(r), 2)

GroupIds == {new_group_channel_id(r) : r \in RandU64}
ChanIds == {ALL_ID} \cup {personal_channel_of(k) : k \in Nodes} \cup GroupIds
\* Join requests: by id alone, by name alone, and by a group id with a name.
JoinRequests ==
    (ChanIds \X {""}) \cup ({NoChannel} \X JoinNames) \cup (GroupIds \X {"a"})

(* ------------------------------ BiHashMap ------------------------------ *)
BiInsert(bm, l, r) == {p \in bm : p[1] # l /\ p[2] # r} \cup {<<l, r>>}
BiRemoveByLeft(bm, l) == {p \in bm : p[1] # l}
ContainsLeft(bm, l) == \E p \in bm : p[1] = l
ContainsRight(bm, r) == \E p \in bm : p[2] = r
GetByLeft(bm, l) == (CHOOSE p \in bm : p[1] = l)[2]
GetByRight(bm, r) == (CHOOSE p \in bm : p[2] = r)[1]
LeftValues(bm) == {p[1] : p \in bm}

(* ------------------------- iteration orders ---------------------------- *)
Orders(S) == {f \in [1..Cardinality(S) -> S] : \A i, j \in DOMAIN f : i # j => f[i] # f[j]}

(* ------------------------------ messages ------------------------------- *)
SrvConfirmReg(to, ok, err, u) ==
    [to |-> to, own_id |-> ServerId, kind |-> "SrvConfirmReg", successful |-> ok,
     error |-> err, username |-> u]
Err(to, ty) ==
    [to |-> to, own_id |-> ServerId, kind |-> "Err", error_type |-> ty]
SrvChannelCreationSuccessful(to, id) ==
    [to |-> to, own_id |-> ServerId, kind |-> "SrvChannelCreationSuccessful", channel_id |-> id]
SrvReturnChannels(to, list) ==
    [to |-> to, own_id |-> ServerId, kind |-> "SrvReturnChannels", channels |-> list]
SrvDistributeMessage(to, u, text, id) ==
    [to |-> to, own_id |-> ServerId, kind |-> "SrvDistributeMessage",
     username |-> u, message |-> text, channel_id |-> id]
DsvRes(to) ==
    [to |-> to, own_id |-> ServerId, kind |-> "DsvRes", server_id |-> ServerId, server_type |-> "chat"]

Inbound(own, kind, id, name, text, was) ==
    [own_id |-> own, kind |-> kind, channel_id |-> id, name |-> name, message |-> text, was_in |-> was]

(* ------------------------------ snapshot ------------------------------- *)
ChannelList(chs, info, users) ==
    {[channel_name |-> p[2], channel_id |-> p[1],
      channel_is_group |-> info[p[1]].is_group,
      connected_clients |->
          {[username |-> GetByLeft(users, x), id |-> x] :
              x \in {y \in info[p[1]].members : ContainsLeft(users, y)}}] :
        p \in {q \in chs : q[1] \in DOMAIN info}}

generate_channel_updates(chs, info, users) ==
    {[i \in DOMAIN o |-> SrvReturnChannels(o[i], ChannelList(chs, info, users))] :
        o \in Orders(LeftValues(users))}

MembersOf(info, n) == {c \in DOMAIN info : n \in info[c].members}

(* ------------------------------- client -------------------------------- *)
Clients == {1, 2}
NoServer == -1

\* ChatClientInternal::new with `own_channel_id: id << 4 | 0x8`.
ClientNew_shl4(id) ==
    [discovered_servers |-> {}, discovered_nodes |-> {},
     currently_connected_server |-> NoServer,
     currently_connected_channel |-> NoChannel,
     server_usernames |-> {}, channels_list |-> {},
     own_id |-> id, own_channel_id |-> U64(0, BitOr(id * 16, 8))]

ClientNew(id) ==
    [discovered_servers |-> {}, discovered_nodes |-> {},
     currently_connected_server |-> NoServer,
     currently_connected_channel |-> NoChannel,
     server_usernames |-> {}, channels_list |-> {},
     own_id |-> id, own_channel_id |-> OrLow(Shl32(U64(0, id)), 8)]

\* the channel id `/msg` addresses: `dst_id.id << 32 | 0x8` on the u64 id
\* of a ClientData
cmd_msg_channel(dst_id) == OrLow(Shl32(dst_id), 8)

NoIds == [k1 |-> -1]
NoInput == [op |-> "new"]
NoOutput == [replies |-> <<>>, events |-> <<>>]
EmptyNet == [c2s |-> [c \in Clients |-> <<>>], s2c |-> [c \in Clients |-> <<>>]]

(* ------------------------------- Init ---------------------------------- *)
ServerNew ==
    /\ channels = {<<ALL_ID, "All">>}
    /\ channel_info = (ALL_ID :> [is_group |-> TRUE, members |-> {}])
    /\ usernames = {}
    /\ replies = <<>>
    /\ last = Inbound(0, "init", NoChannel, "", "", {})
    /\ handled = 0

ClientsNew ==
    /\ clients = [c \in Clients |-> ClientNew(c)]
    /\ net = EmptyNet
    /\ commands = 0
    /\ cl_in = NoInput
    /\ cl_out = NoOutput

Init ==
    /\ ServerNew
    /\ ClientsNew
    /\ id_in = NoIds
    /\ id_out = NoIds

(* ------------------------------ handlers ------------------------------- *)
Rec(own, kind, id, name, text) ==
    Inbound(own, kind, id, name, text, MembersOf(channel_info, own % 256))

\* msg_cliregisterrequest keeping the usernames in a plain list of pairs and
\* forgetting the "username already exists" test.
msg_cliregisterrequest_dup(own, req) ==
    LET cli == own % 256
        p == personal_channel_of(cli) IN
    /\ last' = Rec(own, "CliRegisterRequest", NoChannel, req, "")
    /\ IF ContainsLeft(usernames, cli)
       THEN /\ replies' = <<SrvConfirmReg(cli, FALSE, "Client already registered", req)>>
            /\ UNCHANGED <<channels, channel_info, usernames>>
       ELSE LET users == usernames \cup {<<cli, req>>}
                info1 == IF ALL_ID \in DOMAIN channel_info
                         THEN [channel_info EXCEPT ![ALL_ID].members = @ \cup {cli}]
                         ELSE channel_info
                chs == BiInsert(channels, p, req)
                info == [c \in DOMAIN info1 \cup {p} |->
                            IF c = p THEN [is_group |-> FALSE, members |-> {cli}]
                            ELSE info1[c]] IN
            /\ usernames' = users
            /\ channels' = chs
            /\ channel_info' = info
            /\ \E upd \in generate_channel_updates(chs, info, users) :
                   replies' = <<SrvConfirmReg(cli, TRUE, "", req)>> \o upd

msg_cliregisterrequest(own, req) ==
    LET cli == own % 256
        p == personal_channel_of(cli) IN
    /\ last' = Rec(own, "CliRegisterRequest", NoChannel, req, "")
    /\ IF ContainsLeft(usernames, cli)
       THEN /\ replies' = <<SrvConfirmReg(cli, FALSE, "Client already registered", req)>>
            /\ UNCHANGED <<channels, channel_info, usernames>>
       ELSE IF ContainsRight(usernames, req)
       THEN /\ replies' = <<SrvConfirmReg(cli, FALSE, "Username already exists", req)>>
            /\ UNCHANGED <<channels, channel_info, usernames>>
       ELSE LET users == BiInsert(usernames, cli, req)
                info1 == IF ALL_ID \in DOMAIN channel_info
                         THEN [channel_info EXCEPT ![ALL_ID].members = @ \cup {cli}]
                         ELSE channel_info
                chs == BiInsert(channels, p, req)
                info == [c \in DOMAIN info1 \cup {p} |->
                            IF c = p THEN [is_group |-> FALSE, members |-> {cli}]
                            ELSE info1[c]] IN
            /\ usernames' = users
            /\ channels' = chs
            /\ channel_info' = info
            /\ \E upd \in generate_channel_updates(chs, info, users) :
                   replies' = <<SrvConfirmReg(cli, TRUE, "", req)>> \o upd

\* msg_clicancelreq computing the updates before the username is removed.
msg_clicancelreq_early(own) ==
    LET cli == own % 256
        info == [c \in DOMAIN channel_info |->
                    [channel_info[c] EXCEPT !.members = @ \ {cli}]]
        chs == BiRemoveByLeft(channels, personal_channel_of(cli))
        users == BiRemoveByLeft(usernames, cli) IN
    /\ last' = Rec(own, "CliCancelReg", NoChannel, "", "")
    /\ channel_info' = info
    /\ channels' = chs
    /\ usernames' = users
    /\ \E upd \in generate_channel_updates(chs, info, usernames) : replies' = upd

msg_clicancelreq(own) ==
    LET cli == own % 256
        info == [c \in DOMAIN channel_info |->
                    [channel_info[c] EXCEPT !.members = @ \ {cli}]]
        chs == BiRemoveByLeft(channels, personal_channel_of(cli))
        users == BiRemoveByLeft(usernames, cli) IN
    /\ last' = Rec(own, "CliCancelReg", NoChannel, "", "")
    /\ channel_info' = info
    /\ channels' = chs
    /\ usernames' = users
    /\ \E upd \in generate_channel_updates(chs, info, users) : replies' = upd

msg_clirequestchannels(own) ==
    /\ last' = Rec(own, "CliRequestChannels", NoChannel, "", "")
    /\ \E upd \in generate_channel_updates(channels, channel_info, usernames) :
           replies' = upd
    /\ UNCHANGED <<channels, channel_info, usernames>>

\* The last step of msg_clijoin without the loop that removes the client
\* from the other channels.
JoinResolved_keep(cli, chs, info0, channel_id, pre) ==
    IF cli \in info0[channel_id].members
    THEN /\ replies' = pre \o <<Err(cli, "CHANNEL_ALREADY_JOINED")>>
         /\ channels' = chs
         /\ channel_info' = info0
         /\ UNCHANGED usernames
    ELSE LET info == [info0 EXCEPT ![channel_id].members = @ \cup {cli}] IN
         /\ channels' = chs
         /\ channel_info' = info
         /\ UNCHANGED usernames
         /\ \E upd \in generate_channel_updates(chs, info, usernames) :
                replies' = pre \o <<SrvChannelCreationSuccessful(cli, channel_id)>> \o upd

\* The last step of msg_clijoin, once the target channel is resolved:
\* `pre` holds the replies pushed so far.
JoinResolved(cli, chs, info0, channel_id, pre) ==
    IF cli \in info0[channel_id].members
    THEN /\ replies' = pre \o <<Err(cli, "CHANNEL_ALREADY_JOINED")>>
         /\ channels' = chs
         /\ channel_info' = info0
         /\ UNCHANGED usernames
    ELSE LET info == [c \in DOMAIN info0 |->
                        IF c = channel_id
                        THEN [info0[c] EXCEPT !.members = @ \cup {cli}]
                        ELSE IF c # ALL_ID /\ c # personal_channel_of(cli)
                        THEN [info0[c] EXCEPT !.members = @ \ {cli}]
                        ELSE info0[c]] IN
         /\ channels' = chs
         /\ channel_info' = info
         /\ UNCHANGED usernames
         /\ \E upd \in generate_channel_updates(chs, info, usernames) :
                replies' = pre \o <<SrvChannelCreationSuccessful(cli, channel_id)>> \o upd

msg_clijoin(own, id, name) ==
    LET cli == own % 256 IN
    /\ last' = Rec(own, "CliJoin", id, name, "")
    /\ IF id # NoChannel /\ id \in DOMAIN channel_info
       THEN JoinResolved(cli, channels, channel_info, id, <<>>)
       ELSE IF ContainsRight(channels, name)
               /\ GetByRight(channels, name) \in DOMAIN channel_info
       THEN JoinResolved(cli, channels, channel_info, GetByRight(channels, name), <<>>)
       ELSE IF name # ""
       THEN \E r \in RandU64 :
               LET nid == new_group_channel_id(r) IN
               /\ ~ContainsLeft(channels, nid)
               /\ nid \notin DOMAIN channel_info
               /\ JoinResolved(cli, BiInsert(channels, nid, name),
                               [c \in DOMAIN channel_info \cup {nid} |->
                                   IF c = nid THEN [is_group |-> TRUE, members |-> {}]
                                   ELSE channel_info[c]],
                               nid, <<SrvChannelCreationSuccessful(cli, nid)>>)
       ELSE /\ replies' = <<Err(cli, "CHANNEL_NOT_EXISTS")>>
            /\ UNCHANGED <<channels, channel_info, usernames>>

\* msg_clileave without the exemption of the client's personal channel.
msg_clileave_all(own) ==
    LET cli == own % 256
        info == [c \in DOMAIN channel_info |->
                    IF c # ALL_ID
                    THEN [channel_info[c] EXCEPT !.members = @ \ {cli}]
                    ELSE channel_info[c]] IN
    /\ last' = Rec(own, "CliLeave", NoChannel, "", "")
    /\ channel_info' = info
    /\ UNCHANGED <<channels, usernames>>
    /\ \E upd \in generate_channel_updates(channels, info, usernames) : replies' = upd

\* msg_clileave that removes the node from no channel.
msg_clileave_none(own) ==
    /\ last' = Rec(own, "CliLeave", NoChannel, "", "")
    /\ UNCHANGED <<channels, channel_info, usernames>>
    /\ \E upd \in generate_channel_updates(channels, channel_info, usernames) :
           replies' = upd

msg_clileave(own) ==
    LET cli == own % 256
        info == [c \in DOMAIN channel_info |->
                    IF c # ALL_ID /\ c # personal_channel_of(cli)
                    THEN [channel_info[c] EXCEPT !.members = @ \ {cli}]
                    ELSE channel_info[c]] IN
    /\ last' = Rec(own, "CliLeave", NoChannel, "", "")
    /\ channel_info' = info
    /\ UNCHANGED <<channels, usernames>>
    /\ \E upd \in generate_channel_updates(channels, info, usernames) : replies' = upd

\* msg_sendmsg without the filter that leaves the sender out.
msg_sendmsg_echo(own, id, text) ==
    LET cli == own % 256 IN
    /\ last' = Rec(own, "SendMsg", id, "", text)
    /\ UNCHANGED <<channels, channel_info, usernames>>
    /\ IF ~ContainsLeft(usernames, cli)
       THEN replies' = <<Err(cli, "NOT_REGISTERED")>>
       ELSE IF id \notin DOMAIN channel_info
       THEN replies' = <<Err(cli, "CHANNEL_NOT_EXISTS")>>
       ELSE \E o \in Orders(channel_info[id].members) :
               replies' = [i \in DOMAIN o |->
                              SrvDistributeMessage(o[i], GetByLeft(usernames, cli), text, id)]

\* msg_sendmsg looking at the channel before the username.
msg_sendmsg_chanfirst(own, id, text) ==
    LET cli == own % 256 IN
    /\ last' = Rec(own, "SendMsg", id, "", text)
    /\ UNCHANGED <<channels, channel_info, usernames>>
    /\ IF id \notin DOMAIN channel_info
       THEN replies' = <<Err(cli, "CHANNEL_NOT_EXISTS")>>
       ELSE IF ~ContainsLeft(usernames, cli)
       THEN replies' = <<Err(cli, "NOT_REGISTERED")>>
       ELSE \E o \in Orders(channel_info[id].members \ {cli}) :
               replies' = [i \in DOMAIN o |->
                              SrvDistributeMessage(o[i], GetByLeft(usernames, cli), text, id)]

msg_sendmsg(own, id, text) ==
    LET cli == own % 256 IN
    /\ last' = Rec(own, "SendMsg", id, "", text)
    /\ UNCHANGED <<channels, channel_info, usernames>>
    /\ IF ~ContainsLeft(usernames, cli)
       THEN replies' = <<Err(cli, "NOT_REGISTERED")>>
       ELSE IF id \notin DOMAIN channel_info
       THEN replies' = <<Err(cli, "CHANNEL_NOT_EXISTS")>>
       ELSE \E o \in Orders(channel_info[id].members \ {cli}) :
               replies' = [i \in DOMAIN o |->
                              SrvDistributeMessage(o[i], GetByLeft(usernames, cli), text, id)]

msg_err(own) ==
    /\ last' = Rec(own, "Err", NoChannel, "", "")
    /\ replies' = <<>>
    /\ UNCHANGED <<channels, channel_info, usernames>>

msg_dsvreq(own) ==
    /\ last' = Rec(own, "DsvReq", NoChannel, "", "")
    /\ replies' = <<DsvRes(own % 256)>>
    /\ UNCHANGED <<channels, channel_info, usernames>>

\* Any other kind (the server-originated ones): the catch-all arm.
OtherKinds == {"SrvConfirmReg", "SrvReturnChannels", "SrvChannelCreationSuccessful",
               "SrvDistributeMessage", "DsvRes"}

msg_other(own, kind) ==
    /\ last' = Rec(own, kind, NoChannel, "", "")
    /\ replies' = <<Err(own % 256, "INVALID_CLI_MESSAGE")>>
    /\ UNCHANGED <<channels, channel_info, usernames>>

\* message_kind is None: nothing is pushed.
msg_nokind(own) ==
    /\ last' = Rec(own, "None", NoChannel, "", "")
    /\ replies' = <<>>
    /\ UNCHANGED <<channels, channel_info, usernames>>

\* One inbound message is handled per step, at most MaxMessages in a run.
Handle ==
    handled < MaxMessages /\ handled' = handled + 1 /\ UNCHANGED <<cvars, ivars, ovars>>

RegisterRequest == \E own \in OwnIds, req \in RegisterNames : Handle /\ msg_cliregisterrequest(own, req)
CancelRegistration == \E own \in OwnIds : Handle /\ msg_clicancelreq(own)
RequestChannels == \E own \in OwnIds : Handle /\ msg_clirequestchannels(own)
Join == \E own \in OwnIds, req \in JoinRequests : Handle /\ msg_clijoin(own, req[1], req[2])
Leave == \E own \in OwnIds : Handle /\ msg_clileave(own)
SendMsg == \E own \in OwnIds, id \in ChanIds, text \in Texts : Handle /\ msg_sendmsg(own, id, text)
ErrMsg == \E own \in OwnIds : Handle /\ msg_err(own)
DsvReq == \E own \in OwnIds : Handle /\ msg_dsvreq(own)
OtherMsg == \E own \in OwnIds, kind \in OtherKinds : Handle /\ msg_other(own, kind)
NoKindMsg == \E own \in OwnIds : Handle /\ msg_nokind(own)

Next ==
    \/ RegisterRequest
    \/ CancelRegistration
    \/ RequestChannels
    \/ Join
    \/ Leave
    \/ SendMsg
    \/ ErrMsg
    \/ DsvReq
    \/ OtherMsg
    \/ NoKindMsg

Spec == Init /\ [][Next]_vars

TypeOK ==
    /\ \A p \in channels : p[1] \in DOMAIN channel_info
    /\ \A c \in DOMAIN channel_info : channel_info[c].members \subseteq Nodes

(* ------------------------ vocabulary of the claims --------------------- *)
Cli == last.own_id % 256
Registered(n) == ContainsLeft(usernames, n)
Members(c) == IF c \in DOMAIN channel_info THEN channel_info[c].members ELSE {}
Snapshot == ChannelList(channels, channel_info, usernames)
Sent(kind) == {i \in DOMAIN replies : replies[i].kind = kind}
SentTo(kind, n) == {i \in Sent(kind) : replies[i].to = n}
GroupChannelsOf(n) == {c \in DOMAIN channel_info : Tag(c) = 2 /\ n \in channel_info[c].members}

RegisterSucceeded ==
    /\ last.kind = "CliRegisterRequest"
    /\ \E i \in Sent("SrvConfirmReg") : replies[i].successful
JoinSucceeded == last.kind = "CliJoin" /\ Sent("Err") = {}
\* The channel a successful Join resolved to: the one every success reply names.
JoinedChannel == replies[CHOOSE i \in Sent("SrvChannelCreationSuccessful") : TRUE].channel_id

(* C1: the identifier-to-username mapping never has two entries with the   *)
(* same node id or two entries with the same username.                     *)
C1_RegistryBijection ==
    \A p, q \in usernames : (p[1] = q[1] \/ p[2] = q[2]) => p = q

\* A RegisterRequest for a username another node holds has just been handled.
C1_Witness ==
    /\ last.kind = "CliRegisterRequest"
    /\ \E p \in usernames : p[2] = last.name /\ p[1] # Cli

(* C2: every node is a member of at most one group channel with tag 0x2;   *)
(* after a successful Join of a tag-0x2 channel B by a registered node n,  *)
(* n is a member of B, of no other tag-0x2 channel, of "All" and of its    *)
(* own personal channel.                                                   *)
C2_SingleGroupMembership ==
    /\ \A n \in Nodes : Cardinality(GroupChannelsOf(n)) <= 1
    /\ (JoinSucceeded /\ Registered(Cli) /\ Tag(JoinedChannel) = 2) =>
          /\ GroupChannelsOf(Cli) = {JoinedChannel}
          /\ Cli \in Members(ALL_ID)
          /\ Cli \in Members(personal_channel_of(Cli))

\* A registered node that was in group channel A has just joined group channel B.
C2_Witness ==
    /\ JoinSucceeded /\ Registered(Cli) /\ Tag(JoinedChannel) = 2
    /\ \E a \in last.was_in : Tag(a) = 2 /\ a # JoinedChannel

(* C3: a SendMsg from a registered sender to an existing channel yields    *)
(* exactly one DistributeMessage per member other than the sender, with    *)
(* the sender's username, the text and the channel id, and nothing else.   *)
C3_RoutingCorrectness ==
    (last.kind = "SendMsg" /\ Registered(Cli) /\ last.channel_id \in DOMAIN channel_info) =>
        LET rcpt == Members(last.channel_id) \ {Cli} IN
        /\ Len(replies) = Cardinality(rcpt)
        /\ \A n \in rcpt : Cardinality(SentTo("SrvDistributeMessage", n)) = 1
        /\ \A i \in DOMAIN replies :
              replies[i] = SrvDistributeMessage(replies[i].to, GetByLeft(usernames, Cli),
                                                last.message, last.channel_id)
        /\ \A i \in DOMAIN replies : replies[i].to \in rcpt

\* A registered member of a channel with other members has just sent to it.
C3_Witness ==
    /\ last.kind = "SendMsg" /\ Registered(Cli)
    /\ Cli \in Members(last.channel_id)
    /\ Members(last.channel_id) \ {Cli} # {}
    /\ Len(replies) > 0

(* C4: immediately after CancelRegistration from n, n is in no member set, *)
(* has no username, and its personal channel exists in no map.             *)
C4_UnregisterRemovesAllTraces ==
    last.kind = "CliCancelReg" =>
        /\ MembersOf(channel_info, Cli) = {}
        /\ ~Registered(Cli)
        /\ ~ContainsLeft(channels, personal_channel_of(Cli))
        /\ personal_channel_of(Cli) \notin DOMAIN channel_info

(* C5: after a successful RegisterRequest, a CancelRegistration, a Leave   *)
(* or a successful Join, the replies hold exactly one ChannelsList for     *)
(* each node registered after the operation, none for any other node, and  *)
(* each carries the channel list of the state after the operation.         *)
C5_BroadcastPolicy ==
    (RegisterSucceeded \/ last.kind \in {"CliCancelReg", "CliLeave"} \/ JoinSucceeded) =>
        /\ \A n \in LeftValues(usernames) : Cardinality(SentTo("SrvReturnChannels", n)) = 1
        /\ \A i \in Sent("SrvReturnChannels") :
              /\ Registered(replies[i].to)
              /\ replies[i].channels = Snapshot

\* A registered node has just unregistered while another node stays registered.
C5_Witness ==
    /\ last.kind = "CliCancelReg"
    /\ personal_channel_of(Cli) \in last.was_in
    /\ usernames # {}

(* C6: a RequestChannels from any node c yields exactly one ChannelsList,  *)
(* addressed to c, and leaves the registry unchanged.                      *)
C6_RequestChannelsToRequester ==
    [][last'.kind = "CliRequestChannels" =>
          /\ Len(replies') = 1
          /\ replies'[1].kind = "SrvReturnChannels"
          /\ replies'[1].to = last'.own_id % 256
          /\ UNCHANGED <<channels, channel_info, usernames>>]_vars

(* C7: every successful Join yields exactly one ChannelCreationSuccessful  *)
(* with the resolved id, addressed to the requester, before the snapshots. *)
C7_JoinSuccessReply ==
    JoinSucceeded =>
        /\ Cardinality(Sent("SrvChannelCreationSuccessful")) = 1
        /\ \A i \in Sent("SrvChannelCreationSuccessful") :
              /\ replies[i].to = Cli
              /\ Cli \in Members(replies[i].channel_id)
              /\ \A j \in Sent("SrvReturnChannels") : i < j

(* C8: channel id 1 always exists, is a group channel, is named "All" and  *)
(* is listed under that id and name in every snapshot.                     *)
C8_AllChannelPermanent ==
    /\ ALL_ID \in DOMAIN channel_info
    /\ channel_info[ALL_ID].is_group
    /\ <<ALL_ID, "All">> \in channels
    /\ \E ch \in Snapshot :
          ch.channel_id = ALL_ID /\ ch.channel_name = "All" /\ ch.channel_is_group

(* C9: a group channel listed in a snapshot is listed with the same id,    *)
(* name and group flag in every later snapshot.                            *)
C9_GroupChannelsPersist ==
    [][\A ch \in Snapshot :
          (Tag(ch.channel_id) = 2 /\ ch.channel_is_group) =>
              \E ch2 \in ChannelList(channels', channel_info', usernames') :
                  /\ ch2.channel_id = ch.channel_id
                  /\ ch2.channel_name = ch.channel_name
                  /\ ch2.channel_is_group]_vars

(* C10: every member of every channel has a username, so no                *)
(* DistributeMessage is addressed to a node without a registration.        *)
C10_OnlyRegisteredMembers ==
    /\ \A c \in DOMAIN channel_info : \A n \in channel_info[c].members : Registered(n)
    /\ \A i \in Sent("SrvDistributeMessage") : Registered(replies[i].to)

(* ------------------ vocabulary of the step claims ---------------------- *)
Cli2 == last'.own_id % 256
ServerUnchanged == UNCHANGED <<channels, channel_info, usernames>>
\* channel_info entries of personal channels are created by a registration
\* only and are never removed.
NeverRegistered(n) == personal_channel_of(n) \notin DOMAIN channel_info
ResolvesById == last'.channel_id # NoChannel /\ last'.channel_id \in DOMAIN channel_info
ResolvesByName == ~ResolvesById /\ ContainsRight(channels, last'.name)
ResolvedChannel ==
    IF ResolvesById THEN last'.channel_id ELSE GetByRight(channels, last'.name)

(* C11: a RegisterRequest(u) from a node without a username, u held by     *)
(* nobody, binds n to u, adds n to "All", creates n's personal channel     *)
(* with members {n}, and replies ConfirmRegistration(success, u) first and *)
(* then a snapshot to n listing "All" with n (as u) and n's personal       *)
(* channel.                                                                *)
C11_RegisterSuccess ==
    [][(/\ last'.kind = "CliRegisterRequest"
        /\ ~ContainsLeft(usernames, Cli2)
        /\ ~ContainsRight(usernames, last'.name)) =>
          /\ <<Cli2, last'.name>> \in usernames'
          /\ Cli2 \in channel_info'[ALL_ID].members
          /\ personal_channel_of(Cli2) \in DOMAIN channel_info'
          /\ channel_info'[personal_channel_of(Cli2)].members = {Cli2}
          /\ replies'[1] = SrvConfirmReg(Cli2, TRUE, "", last'.name)
          /\ \E i \in DOMAIN replies' :
                /\ i > 1
                /\ replies'[i].kind = "SrvReturnChannels"
                /\ replies'[i].to = Cli2
                /\ \E ch \in replies'[i].channels :
                      /\ ch.channel_id = ALL_ID
                      /\ ch.channel_name = "All"
                      /\ [username |-> last'.name, id |-> Cli2] \in ch.connected_clients
                /\ \E ch \in replies'[i].channels :
                      ch.channel_id = personal_channel_of(Cli2)]_vars

(* C12: a RegisterRequest from a node that has a username, or for a        *)
(* username another node holds, yields exactly one                         *)
(* ConfirmRegistration(failure) to the requester, no snapshot, and leaves  *)
(* usernames, channels and memberships unchanged.                          *)
C12_RegisterFailure ==
    [][(/\ last'.kind = "CliRegisterRequest"
        /\ \/ ContainsLeft(usernames, Cli2)
           \/ \E p \in usernames : p[2] = last'.name /\ p[1] # Cli2) =>
          /\ Len(replies') = 1
          /\ replies'[1].kind = "SrvConfirmReg"
          /\ ~replies'[1].successful
          /\ replies'[1].to = Cli2
          /\ ServerUnchanged]_vars

\* A RegisterRequest has just been refused.
C12_Witness ==
    /\ last.kind = "CliRegisterRequest"
    /\ Len(replies) = 1
    /\ ~replies[1].successful

(* C13: a SendMsg from a sender without a username yields exactly one      *)
(* Error(NotRegistered) whether or not the channel exists; from a          *)
(* registered sender to a channel id that does not exist exactly one       *)
(* Error(ChannelNotFound); no DistributeMessage, state unchanged.          *)
C13_SendMsgFailure ==
    [][last'.kind = "SendMsg" =>
          /\ ~ContainsLeft(usernames, Cli2) =>
                replies' = <<Err(Cli2, "NOT_REGISTERED")>> /\ ServerUnchanged
          /\ (ContainsLeft(usernames, Cli2) /\ last'.channel_id \notin DOMAIN channel_info) =>
                replies' = <<Err(Cli2, "CHANNEL_NOT_EXISTS")>> /\ ServerUnchanged]_vars

\* An unregistered node has just sent to a channel id that does not exist.
C13_Witness ==
    /\ last.kind = "SendMsg"
    /\ ~Registered(Cli)
    /\ last.channel_id \notin DOMAIN channel_info
    /\ Len(replies) = 1

(* C14: a Join whose id does not resolve and whose name is empty yields    *)
(* exactly one Error(ChannelNotFound); a Join resolving to a channel the   *)
(* node is in yields exactly one Error(AlreadyJoined); in both cases       *)
(* nothing else is emitted and the server state is unchanged.              *)
C14_JoinFailure ==
    [][last'.kind = "CliJoin" =>
          /\ (~ResolvesById /\ last'.name = "") =>
                replies' = <<Err(Cli2, "CHANNEL_NOT_EXISTS")>> /\ ServerUnchanged
          /\ ((ResolvesById \/ ResolvesByName) /\ Cli2 \in channel_info[ResolvedChannel].members) =>
                replies' = <<Err(Cli2, "CHANNEL_ALREADY_JOINED")>> /\ ServerUnchanged]_vars

(* C15: a Join that resolves neither by id nor by name and has a non-empty *)
(* name creates exactly one channel: group flag true, that name, an id     *)
(* with low 4 bits 0x2 unknown to the server before, members {requester};  *)
(* an existing id is preferred over a name and an existing name is reused. *)
C15_JoinByNewName ==
    [][last'.kind = "CliJoin" =>
          /\ (~ResolvesById /\ ~ResolvesByName /\ last'.name # "") =>
                \E nid \in DOMAIN channel_info' :
                    /\ nid \notin DOMAIN channel_info
                    /\ ~ContainsLeft(channels, nid)
                    /\ Tag(nid) = 2
                    /\ DOMAIN channel_info' = DOMAIN channel_info \cup {nid}
                    /\ channel_info'[nid] = [is_group |-> TRUE, members |-> {Cli2}]
                    /\ channels' = channels \cup {<<nid, last'.name>>}
          /\ (ResolvesById \/ ResolvesByName) =>
                /\ DOMAIN channel_info' = DOMAIN channel_info
                /\ channels' = channels
                /\ Cli2 \in channel_info'[ResolvedChannel].members]_vars

\* Two Joins by new names have created the two group channels.
C15_Witness ==
    /\ handled = 2
    /\ last.kind = "CliJoin" /\ last.channel_id = NoChannel /\ last.name # ""
    /\ GroupIds \subseteq DOMAIN channel_info
    /\ \A g \in GroupIds : ContainsLeft(channels, g)

(* C16: Leave from n removes n from every channel except "All" and n's own *)
(* personal channel, changes nobody else's memberships, and a second Leave *)
(* leaves the server state as the first left it.                           *)
C16_Leave ==
    [][last'.kind = "CliLeave" =>
          /\ DOMAIN channel_info' = DOMAIN channel_info
          /\ \A c \in DOMAIN channel_info :
                /\ channel_info'[c].is_group = channel_info[c].is_group
                /\ channel_info'[c].members =
                      IF c \in {ALL_ID, personal_channel_of(Cli2)}
                      THEN channel_info[c].members
                      ELSE channel_info[c].members \ {Cli2}
          /\ UNCHANGED <<channels, usernames>>
          /\ (last.kind = "CliLeave" /\ last.own_id = last'.own_id) =>
                ServerUnchanged /\ replies' \in generate_channel_updates(channels, channel_info, usernames)]_vars

\* A registered node that was in a group channel has just left.
C16_Witness ==
    /\ last.kind = "CliLeave"
    /\ Registered(Cli)
    /\ \E c \in last.was_in : Tag(c) = 2
    /\ GroupChannelsOf(Cli) = {}

(* C17: two consecutive CancelRegistration from x leave the server as one  *)
(* does, a CancelRegistration from a never-registered node leaves the      *)
(* state unchanged, and neither yields an Error reply.                     *)
C17_UnregisterIdempotent ==
    [][last'.kind = "CliCancelReg" =>
          /\ (last.kind = "CliCancelReg" /\ last.own_id = last'.own_id) => ServerUnchanged
          /\ NeverRegistered(Cli2) => ServerUnchanged
          /\ \A i \in DOMAIN replies' : replies'[i].kind # "Err"]_vars

(* C18: every inbound message of a kind the server does not expect (a      *)
(* server-originated kind, an Error, or no kind at all) yields exactly one *)
(* Error(InvalidClientMessage) to the originator, state unchanged.         *)
C18_ServerProtocolHygiene ==
    [][last'.kind \in OtherKinds \cup {"Err", "None"} =>
          /\ replies' = <<Err(last'.own_id, "INVALID_CLI_MESSAGE")>>
          /\ ServerUnchanged]_vars

(* ------------------------ channel id computations ---------------------- *)
\* NodeId is a u8
NodeIdMax == 255
NodeIds == 0..NodeIdMax

\* random draws of the group id generator: the ones that make the group
\* ids of the server model, and ones whose upper half is a node id and
\* whose low four bits are those of a personal channel id
IdRand == RandU64 \cup {U64(h, l) : h \in {1, NodeIdMax}, l \in {8, 15}}
\* two node ids and one random draw
IdInputs == [k1 : NodeIds, k2 : NodeIds, r : IdRand]

InitIds ==
    /\ ServerNew
    /\ ClientsNew
    /\ id_in \in IdInputs
    /\ id_out = NoIds

\* the personal channel the server registers for k1 and for k2, the
\* own_channel_id the client k1 is constructed with, the channel `/msg`
\* addresses for the listed client k1, and the group id made from r
ComputeIds ==
    /\ id_out = NoIds
    /\ id_out' = [srv1 |-> personal_channel_of(id_in.k1),
                  srv2 |-> personal_channel_of(id_in.k2),
                  own |-> ClientNew(id_in.k1).own_channel_id,
                  msg |-> cmd_msg_channel(U64(0, id_in.k1)),
                  grp |-> new_group_channel_id(id_in.r)]
    /\ UNCHANGED <<svars, cvars, id_in, ovars>>

NextIds == ComputeIds

SpecIds == InitIds /\ [][NextIds]_vars

\* C19: the personal channel id of node k is (k << 32) | 0x8 wherever it is
\* computed: the server (registration), the client's own_channel_id and the
\* channel `/msg` addresses all give the same value; two different nodes
\* get different ids; the id is never the "All" id and never a group id
\* the server can generate (those end in 0x2).
C19_PersonalChannelId ==
    id_out # NoIds =>
        /\ id_out.srv1 = U64(id_in.k1, 8)
        /\ id_out.own = id_out.srv1
        /\ id_out.msg = id_out.srv1
        /\ (id_in.k1 # id_in.k2 => id_out.srv1 # id_out.srv2)
        /\ id_out.srv1 # ALL_ID
        /\ Tag(id_out.grp) = 2
        /\ id_out.srv1 # id_out.grp

C19_Witness ==
    /\ id_out # NoIds
    /\ id_in.k1 = NodeIdMax
    /\ id_in.k2 = 0
    /\ id_in.r = U64(NodeIdMax, 8)

(* ---------------------------- client engine ---------------------------- *)
\* A handler of the client is a function of the client's state and its
\* input; it gives the new state, the messages to send and the events.
Out(cl, msgs, events) == [cl |-> cl, replies |-> msgs, events |-> events]

CliMsg(to, own, kind, id, name, text) ==
    [to |-> to, own_id |-> own, kind |-> kind, channel_id |-> id,
     name |-> name, message |-> text]

\* HashMap as a set of <<key, value>> pairs
MapInsert(m, k, v) == {p \in m : p[1] # k} \cup {<<k, v>>}
MapRemove(m, k) == {p \in m : p[1] # k}
MapHas(m, k) == \E p \in m : p[1] = k
MapGet(m, k) == (CHOOSE p \in m : p[1] = k)[2]

Digits == <<"0", "1", "2", "3", "4", "5", "6", "7", "8", "9">>
RECURSIVE NodeIdToString(_)
NodeIdToString(n) ==
    IF n < 10 THEN Digits[n + 1]
    ELSE NodeIdToString(n \div 10) \o Digits[(n % 10) + 1]

\* str.starts_with(pre)
HasPrefix(e, pre) == Len(e) >= Len(pre) /\ SubSeq(e, 1, Len(pre)) = pre
\* str.contains(ch) for a one-character ch
Contains(str, ch) == \E i \in 1..Len(str) : SubSeq(str, i, i) = ch
HasDisallowedChar(arg) == Contains(arg, " ") \/ Contains(arg, "#") \/ Contains(arg, "@")

NOT_CONNECTED_TO_SERVER ==
    "[SYSTEM] Error: Not connected to a server. Use /servers to find servers and /connect <server_id> to connect to a server before registering."

\* add_node that never marks the node as probed.
add_node_unmarked(cl, id, typ) ==
    IF id \in cl.discovered_nodes \/ typ # "Server"
    THEN Out(cl, <<>>, <<>>)
    ELSE Out(cl, <<CliMsg(id, cl.own_id, "DsvReq", NoChannel, "chat", "")>>, <<>>)

add_node(cl, id, typ) ==
    IF id \in cl.discovered_nodes \/ typ # "Server"
    THEN Out(cl, <<>>, <<>>)
    ELSE Out([cl EXCEPT !.discovered_nodes = @ \cup {id}],
             <<CliMsg(id, cl.own_id, "DsvReq", NoChannel, "chat", "")>>, <<>>)

\* cmd_connect that keeps the joined channel.
cmd_connect_keepchannel(cl, arg) ==
    LET cleared == [cl EXCEPT !.channels_list = {},
                              !.currently_connected_server = NoServer]
        found == {p \in cl.discovered_servers :
                     p[2] = "chat" /\ NodeIdToString(p[1]) = arg} IN
    IF found # {}
    THEN LET id == (CHOOSE p \in found : TRUE)[1] IN
         Out([cleared EXCEPT !.currently_connected_server = id],
             <<CliMsg(id, cl.own_id, "CliRequestChannels", NoChannel, "", "")>>,
             <<"[SYSTEM] Connecting to server " \o NodeIdToString(id)>>)
    ELSE Out(cleared, <<>>, <<"[SYSTEM] Error: Server not found">>)

cmd_connect(cl, arg) ==
    LET cleared == [cl EXCEPT !.channels_list = {},
                              !.currently_connected_server = NoServer,
                              !.currently_connected_channel = NoChannel]
        found == {p \in cl.discovered_servers :
                     p[2] = "chat" /\ NodeIdToString(p[1]) = arg} IN
    IF found # {}
    THEN LET id == (CHOOSE p \in found : TRUE)[1] IN
         Out([cleared EXCEPT !.currently_connected_server = id],
             <<CliMsg(id, cl.own_id, "CliRequestChannels", NoChannel, "", "")>>,
             <<"[SYSTEM] Connecting to server " \o NodeIdToString(id)>>)
    ELSE Out(cleared, <<>>, <<"[SYSTEM] Error: Server not found">>)

\* the event lists the discovered servers of type "chat"
cmd_servers(cl) ==
    Out(cl, <<>>,
        <<[servers |-> {NodeIdToString(p[1]) : p \in
                           {q \in cl.discovered_servers : q[2] = "chat"}}]>>)

\* cmd_register that does not look at the cached username.
cmd_register_again(cl, server_id, arg) ==
    IF HasDisallowedChar(arg)
    THEN Out(cl, <<>>, <<"[SYSTEM] Error: Username cannot contain spaces, '#' or '@'">>)
    ELSE Out(cl,
             <<CliMsg(server_id, cl.own_id, "CliRegisterRequest", NoChannel, arg, ""),
               CliMsg(server_id, cl.own_id, "CliRequestChannels", NoChannel, "", "")>>,
             <<"[SYSTEM] Registering with username " \o arg>>)

cmd_register(cl, server_id, arg) ==
    IF HasDisallowedChar(arg)
    THEN Out(cl, <<>>, <<"[SYSTEM] Error: Username cannot contain spaces, '#' or '@'">>)
    ELSE IF MapHas(cl.server_usernames, server_id)
    THEN Out(cl, <<>>, <<"[SYSTEM] Error: Already registered with username "
                         \o MapGet(cl.server_usernames, server_id)>>)
    ELSE Out(cl,
             <<CliMsg(server_id, cl.own_id, "CliRegisterRequest", NoChannel, arg, ""),
               CliMsg(server_id, cl.own_id, "CliRequestChannels", NoChannel, "", "")>>,
             <<"[SYSTEM] Registering with username " \o arg>>)

cmd_unregister(cl, server_id) ==
    IF MapHas(cl.server_usernames, server_id)
    THEN Out([cl EXCEPT !.server_usernames = MapRemove(@, server_id)],
             <<CliMsg(server_id, cl.own_id, "CliCancelReg", NoChannel, "", "")>>,
             <<"[SYSTEM] Removing registration...">>)
    ELSE Out(cl, <<>>, <<"[SYSTEM] Not registered to this server!">>)

\* the event lists the cached group channels and the users of "All"
cmd_channels(cl, server_id) ==
    Out(cl,
        <<CliMsg(server_id, cl.own_id, "CliRequestChannels", NoChannel, "", "")>>,
        <<[channels |-> {x.channel_name : x \in
                            {y \in cl.channels_list :
                                y.channel_is_group /\ y.channel_id # ALL_ID}},
           ims |-> UNION {{u.username : u \in x.connected_clients} : x \in
                            {y \in cl.channels_list : y.channel_id = ALL_ID}}]>>)

cmd_join(cl, server_id, arg) ==
    IF HasDisallowedChar(arg)
    THEN Out(cl, <<>>, <<"[SYSTEM] Error: Channel name cannot contain spaces, '#' or '@'">>)
    ELSE LET known == {x \in cl.channels_list : x.channel_name = arg} IN
         IF known # {}
         THEN Out(cl,
                  <<CliMsg(server_id, cl.own_id, "CliJoin",
                           (CHOOSE x \in known : TRUE).channel_id, "", "")>>,
                  <<"[SYSTEM] Joining channel...">>)
         ELSE Out(cl,
                  <<CliMsg(server_id, cl.own_id, "CliJoin", NoChannel, arg, "")>>,
                  <<"[SYSTEM] Creating channel...">>)

cmd_leave(cl, server_id) ==
    IF cl.currently_connected_channel # NoChannel
    THEN Out([cl EXCEPT !.currently_connected_channel = NoChannel],
             <<CliMsg(server_id, cl.own_id, "CliLeave", NoChannel, "", "")>>,
             <<"[SYSTEM] Leaving channel...">>)
    ELSE Out(cl, <<>>, <<"[SYSTEM] Error: You are not connected to a channel.">>)

\* cmd_msg that looks the user up in every cached channel.
cmd_msg_anychannel(cl, server_id, arg, freeform) ==
    IF MapHas(cl.server_usernames, server_id)
    THEN LET dst == {u \in UNION {x.connected_clients : x \in cl.channels_list} :
                        u.username = arg} IN
         IF dst # {}
         THEN Out(cl,
                  <<CliMsg(server_id, cl.own_id, "SendMsg",
                           cmd_msg_channel(U64(0, (CHOOSE u \in dst : TRUE).id)),
                           "", freeform)>>,
                  <<>>)
         ELSE Out(cl, <<>>, <<"[SYSTEM] Error: User not found">>)
    ELSE Out(cl, <<>>, <<"[SYSTEM] Please set your username with /register <username> and try /msg-ing again.">>)

cmd_msg(cl, server_id, arg, freeform) ==
    IF MapHas(cl.server_usernames, server_id)
    THEN LET all == {x \in cl.channels_list : x.channel_id = ALL_ID} IN
         IF all # {}
         THEN LET dst == {u \in (CHOOSE x \in all : TRUE).connected_clients :
                             u.username = arg} IN
              IF dst # {}
              THEN Out(cl,
                       <<CliMsg(server_id, cl.own_id, "SendMsg",
                                cmd_msg_channel(U64(0, (CHOOSE u \in dst : TRUE).id)),
                                "", freeform)>>,
                       <<>>)
              ELSE Out(cl, <<>>, <<"[SYSTEM] Error: User not found">>)
         ELSE Out(cl, <<>>, <<"[SYSTEM] Error: No 'all' channel found">>)
    ELSE Out(cl, <<>>, <<"[SYSTEM] Please set your username with /register <username> and try /msg-ing again.">>)

\* the guarded commands without "msg".
ServerCommands_nomsg == {"register", "unregister", "channels", "join", "leave"}

ServerCommands == {"register", "unregister", "channels", "join", "leave", "msg"}

handle_command(cl, command, arg, freeform) ==
    IF command \in ServerCommands
    THEN IF cl.currently_connected_server # NoServer
         THEN LET server_id == cl.currently_connected_server IN
              CASE command = "unregister" -> cmd_unregister(cl, server_id)
                [] command = "channels" -> cmd_channels(cl, server_id)
                [] command = "join" -> cmd_join(cl, server_id, arg)
                [] command = "leave" -> cmd_leave(cl, server_id)
                [] command = "msg" -> cmd_msg(cl, server_id, arg, freeform)
                [] command = "register" -> cmd_register(cl, server_id, arg)
         ELSE Out(cl, <<>>, <<NOT_CONNECTED_TO_SERVER>>)
    ELSE IF command = "help"
    THEN Out(cl, <<>>, <<"[SYSTEM] Commands:">>)
    ELSE IF command = "servers"
    THEN cmd_servers(cl)
    ELSE IF command = "connect"
    THEN cmd_connect(cl, arg)
    ELSE Out(cl, <<>>, <<"[SYSTEM] Unknown command " \o command
                         \o ". Use /help to list available commands.">>)

\* handle_text_message that does not look at the cached username.
handle_text_message_anyone(cl, message) ==
    IF cl.currently_connected_server # NoServer
    THEN IF cl.currently_connected_channel # NoChannel
         THEN Out(cl,
                  <<CliMsg(cl.currently_connected_server, cl.own_id, "SendMsg",
                           cl.currently_connected_channel, "", message)>>,
                  <<>>)
         ELSE Out(cl, <<>>, <<"[SYSTEM] You are not in a channel. Use /channels to see available channels and /join <channel_id> to join one.">>)
    ELSE Out(cl, <<>>, <<"[SYSTEM] You are not connected to a server. Use /servers to find servers and /connect <server_id> to connect to a server.">>)

handle_text_message(cl, message) ==
    IF cl.currently_connected_server # NoServer
    THEN IF cl.currently_connected_channel # NoChannel
         THEN IF MapHas(cl.server_usernames, cl.currently_connected_server)
              THEN Out(cl,
                       <<CliMsg(cl.currently_connected_server, cl.own_id, "SendMsg",
                                cl.currently_connected_channel, "", message)>>,
                       <<>>)
              ELSE Out(cl, <<>>, <<"[SYSTEM] Please set your username with /register <username> and try /join-ing again.">>)
         ELSE Out(cl, <<>>, <<"[SYSTEM] You are not in a channel. Use /channels to see available channels and /join <channel_id> to join one.">>)
    ELSE Out(cl, <<>>, <<"[SYSTEM] You are not connected to a server. Use /servers to find servers and /connect <server_id> to connect to a server.">>)

\* str.split_once(' ').unwrap_or((str, ""))
split_once(str) ==
    LET at == {i \in 1..Len(str) : SubSeq(str, i, i) = " "} IN
    IF at = {}
    THEN <<str, "">>
    ELSE LET i == CHOOSE k \in at : \A j \in at : k <= j IN
         <<SubSeq(str, 1, i - 1), SubSeq(str, i + 1, Len(str))>>

handle_message(cl, message) ==
    IF HasPrefix(message, "/")
    THEN LET msg == SubSeq(message, 2, Len(message))
             first == split_once(msg)
             second == split_once(first[2]) IN
         handle_command(cl, first[1], second[1], second[2])
    ELSE handle_text_message(cl, message)

msg_srvdistributemessage(cl, msg) ==
    IF msg.channel_id = cl.own_channel_id
       /\ cl.currently_connected_channel = cl.own_channel_id
    THEN <<"[@" \o msg.username \o "] " \o msg.message>>
    ELSE LET chans == {x \in cl.channels_list : x.channel_id = msg.channel_id} IN
         IF chans # {}
         THEN LET chan == CHOOSE x \in chans : TRUE IN
              IF chan.channel_is_group
              THEN <<"[#" \o chan.channel_name \o " @" \o msg.username \o "] " \o msg.message>>
              ELSE <<"[IM @" \o msg.username \o "] " \o msg.message>>
         ELSE <<"[SYSTEM] Error: Received message from unknown channel">>

\* the SrvConfirmReg arm comparing the sender as a u8.
arm_SrvConfirmReg_u8(cl, m) ==
    LET server == cl.currently_connected_server IN
    IF server # NoServer /\ m.successful /\ m.own_id % 256 = server
    THEN Out([cl EXCEPT !.server_usernames = MapInsert(@, server, m.username)],
             <<>>, <<>>)
    ELSE IF server # NoServer /\ m.successful
    THEN Out(cl, <<>>, <<"[SYSTEM] Error: Received registration confirmation from another server">>)
    ELSE IF server # NoServer
    THEN Out(cl, <<>>, <<"[SYSTEM] Error: Registration failed - " \o m.error>>)
    ELSE Out(cl, <<>>, <<"[SYSTEM] Error: Registration failed, not connected to server - " \o m.error>>)

arm_SrvConfirmReg(cl, m) ==
    LET server == cl.currently_connected_server IN
    IF server # NoServer /\ m.successful /\ m.own_id = server
    THEN Out([cl EXCEPT !.server_usernames = MapInsert(@, server, m.username)],
             <<>>, <<>>)
    ELSE IF server # NoServer /\ m.successful
    THEN Out(cl, <<>>, <<"[SYSTEM] Error: Received registration confirmation from another server">>)
    ELSE IF server # NoServer
    THEN Out(cl, <<>>, <<"[SYSTEM] Error: Registration failed - " \o m.error>>)
    ELSE Out(cl, <<>>, <<"[SYSTEM] Error: Registration failed, not connected to server - " \o m.error>>)

\* the SrvReturnChannels arm taking a list from any sender once connected.
arm_SrvReturnChannels_any(cl, m) ==
    LET server == cl.currently_connected_server IN
    IF server # NoServer
    THEN Out([cl EXCEPT !.channels_list = m.channels], <<>>, <<>>)
    ELSE Out(cl, <<>>, <<"[SYSTEM] Error: Received channel list without being connected to a server">>)

arm_SrvReturnChannels(cl, m) ==
    LET server == cl.currently_connected_server IN
    IF server # NoServer /\ m.own_id = server
    THEN Out([cl EXCEPT !.channels_list = m.channels], <<>>, <<>>)
    ELSE IF server # NoServer
    THEN Out(cl, <<>>, <<>>)
    ELSE Out(cl, <<>>, <<"[SYSTEM] Error: Received channel list without being connected to a server">>)

\* the DsvRes arm on a table that appends.
arm_DsvRes_append(cl, m) ==
    Out([cl EXCEPT !.discovered_servers = @ \cup {<<m.server_id % 256, m.server_type>>}],
        <<>>, <<>>)

arm_DsvRes(cl, m) ==
    Out([cl EXCEPT !.discovered_servers =
                       MapInsert(@, m.server_id % 256, m.server_type)],
        <<>>, <<>>)

\* handle_protocol_message keeping a channel list it already has.
client_handle_protocol_message_keep(cl, m) ==
    LET server == cl.currently_connected_server IN
    CASE m.kind = "SrvConfirmReg" ->
           IF server # NoServer /\ m.successful /\ m.own_id = server
           THEN Out([cl EXCEPT !.server_usernames = MapInsert(@, server, m.username)],
                    <<>>, <<>>)
           ELSE IF server # NoServer /\ m.successful
           THEN Out(cl, <<>>, <<"[SYSTEM] Error: Received registration confirmation from another server">>)
           ELSE IF server # NoServer
           THEN Out(cl, <<>>, <<"[SYSTEM] Error: Registration failed - " \o m.error>>)
           ELSE Out(cl, <<>>, <<"[SYSTEM] Error: Registration failed, not connected to server - " \o m.error>>)
      [] m.kind = "SrvReturnChannels" ->
           IF server # NoServer /\ m.own_id = server
           THEN Out([cl EXCEPT !.channels_list =
                                  IF @ = {} THEN m.channels ELSE @], <<>>, <<>>)
           ELSE IF server # NoServer
           THEN Out(cl, <<>>, <<>>)
           ELSE Out(cl, <<>>, <<"[SYSTEM] Error: Received channel list without being connected to a server">>)
      [] m.kind = "SrvDistributeMessage" ->
           Out(cl, <<>>, msg_srvdistributemessage(cl, m))
      [] m.kind = "Err" ->
           Out(cl, <<>>, <<"[SYSTEM] Error: " \o m.error_type>>)
      [] m.kind = "DsvRes" ->
           Out([cl EXCEPT !.discovered_servers =
                              MapInsert(@, m.server_id % 256, m.server_type)],
               <<>>, <<>>)
      [] m.kind = "SrvChannelCreationSuccessful" ->
           Out([cl EXCEPT !.currently_connected_channel = m.channel_id], <<>>, <<>>)
      [] m.kind = "None" -> Out(cl, <<>>, <<>>)
      [] OTHER ->
           Out(cl, <<CliMsg(m.own_id % 256, cl.own_id, "Err", NoChannel,
                            "INVALID_SRV_MESSAGE", "")>>, <<>>)

\* the client's handle_protocol_message
client_handle_protocol_message(cl, m) ==
    CASE m.kind = "SrvConfirmReg" -> arm_SrvConfirmReg(cl, m)
      [] m.kind = "SrvReturnChannels" -> arm_SrvReturnChannels(cl, m)
      [] m.kind = "SrvDistributeMessage" ->
           Out(cl, <<>>, msg_srvdistributemessage(cl, m))
      [] m.kind = "Err" ->
           Out(cl, <<>>, <<"[SYSTEM] Error: " \o m.error_type>>)
      [] m.kind = "DsvRes" -> arm_DsvRes(cl, m)
      [] m.kind = "SrvChannelCreationSuccessful" ->
           Out([cl EXCEPT !.currently_connected_channel = m.channel_id], <<>>, <<>>)
      [] m.kind = "None" -> Out(cl, <<>>, <<>>)
      [] OTHER ->
           Out(cl, <<CliMsg(m.own_id % 256, cl.own_id, "Err", NoChannel,
                            "INVALID_SRV_MESSAGE", "")>>, <<>>)

(* ------------------ clients and server over the network ---------------- *)
MaxCommands == 4

\* what the transport can tell a client about: the server and the clients
Topology == {<<ServerId, "Server">>} \cup {<<c, "Client">> : c \in Clients}
ConnectArgs == {NodeIdToString(ServerId), "7"}
RegisterArgs == {"a", "b"}
JoinArgs == {"a"}

\* every message a client sends goes to the server's in-order queue; the
\* messages of a server reply vector go, in order, to their receivers
ClientSends(c, msgs) ==
    [net EXCEPT !.c2s[c] = @ \o SelectSeq(msgs, LAMBDA m : m.to = ServerId)]
ServerSends(c, msgs) ==
    [c2s |-> [net.c2s EXCEPT ![c] = Tail(@)],
     s2c |-> [d \in Clients |-> net.s2c[d] \o SelectSeq(msgs, LAMBDA m : m.to = d)]]

ClientStep(c, out) ==
    /\ clients' = [clients EXCEPT ![c] = out.cl]
    /\ net' = ClientSends(c, out.replies)
    /\ UNCHANGED <<svars, ivars, ovars>>

\* one more command is typed, at most MaxCommands in a run
Typed == commands < MaxCommands /\ commands' = commands + 1

AddNode ==
    \E c \in Clients, n \in Topology :
        /\ UNCHANGED commands
        /\ ClientStep(c, add_node(clients[c], n[1], n[2]))
CmdConnect ==
    \E c \in Clients, arg \in ConnectArgs :
        Typed /\ ClientStep(c, handle_command(clients[c], "connect", arg, ""))
CmdRegister ==
    \E c \in Clients, arg \in RegisterArgs :
        Typed /\ ClientStep(c, handle_command(clients[c], "register", arg, ""))
CmdUnregister ==
    \E c \in Clients :
        Typed /\ ClientStep(c, handle_command(clients[c], "unregister", "", ""))
CmdChannels ==
    \E c \in Clients :
        Typed /\ ClientStep(c, handle_command(clients[c], "channels", "", ""))
CmdJoin ==
    \E c \in Clients, arg \in JoinArgs :
        Typed /\ ClientStep(c, handle_command(clients[c], "join", arg, ""))
CmdLeave ==
    \E c \in Clients :
        Typed /\ ClientStep(c, handle_command(clients[c], "leave", "", ""))

\* the server takes the oldest message of a client and answers it
ServerReceive ==
    \E c \in Clients :
        /\ net.c2s[c] # <<>>
        /\ LET m == Head(net.c2s[c]) IN
           CASE m.kind = "CliRegisterRequest" -> msg_cliregisterrequest(m.own_id, m.name)
             [] m.kind = "CliCancelReg" -> msg_clicancelreq(m.own_id)
             [] m.kind = "CliRequestChannels" -> msg_clirequestchannels(m.own_id)
             [] m.kind = "CliJoin" -> msg_clijoin(m.own_id, m.channel_id, m.name)
             [] m.kind = "CliLeave" -> msg_clileave(m.own_id)
             [] m.kind = "SendMsg" -> msg_sendmsg(m.own_id, m.channel_id, m.message)
             [] m.kind = "Err" -> msg_err(m.own_id)
             [] m.kind = "DsvReq" -> msg_dsvreq(m.own_id)
             [] m.kind = "None" -> msg_nokind(m.own_id)
             [] OTHER -> msg_other(m.own_id, m.kind)
        /\ handled' = handled + 1
        /\ net' = ServerSends(c, replies')
        /\ UNCHANGED <<clients, commands, ivars, ovars>>

\* a client takes the oldest message the server sent it
ClientReceive ==
    \E c \in Clients :
        /\ net.s2c[c] # <<>>
        /\ LET out == client_handle_protocol_message(clients[c], Head(net.s2c[c])) IN
           /\ clients' = [clients EXCEPT ![c] = out.cl]
           /\ net' = [c2s |-> [net.c2s EXCEPT ![c] = @ \o out.replies],
                      s2c |-> [net.s2c EXCEPT ![c] = Tail(@)]]
        /\ UNCHANGED <<svars, commands, ivars, ovars>>

NextSys ==
    \/ AddNode
    \/ CmdConnect
    \/ CmdRegister
    \/ CmdUnregister
    \/ CmdChannels
    \/ CmdJoin
    \/ CmdLeave
    \/ ServerReceive
    \/ ClientReceive

SpecSys == Init /\ [][NextSys]_vars

Quiescent == \A c \in Clients : net.c2s[c] = <<>> /\ net.s2c[c] = <<>>

\* C20: with in-order reliable delivery, whenever no message is in flight,
\* every node registered on the server whose client is connected to the
\* server caches a channel list equal to the server's current snapshot.
C20_CachedListConsistent ==
    Quiescent =>
        \A c \in Clients :
            (Registered(c) /\ clients[c].currently_connected_server = ServerId) =>
                clients[c].channels_list = Snapshot

\* Nothing is in flight, client 1 is registered and connected, and its
\* cached list holds a group channel that client 2 created and is in.
C20_Witness ==
    /\ Quiescent
    /\ Registered(1)
    /\ clients[1].currently_connected_server = ServerId
    /\ \E ch \in clients[1].channels_list :
          /\ Tag(ch.channel_id) = 2
          /\ 2 \in Members(ch.channel_id)
    /\ clients[1].channels_list = Snapshot

(* ----------------------- one client engine alone ----------------------- *)
\* The client under test, another server's id, and a sender whose u32 id
\* has the low byte of the server's.
Me == 1
OtherServer == 7
Senders == {ServerId, OtherServer, 256 + ServerId}

Channel(name, id, is_group, users) ==
    [channel_name |-> name, channel_id |-> id, channel_is_group |-> is_group,
     connected_clients |-> users]
ClientData(name, id) == [username |-> name, id |-> id]

ChanAll == Channel("All", ALL_ID, TRUE, {ClientData("a", Me), ClientData("b", 2)})
ChanMine == Channel("a", personal_channel_of(Me), FALSE, {ClientData("a", Me)})
ChanG == Channel("g", new_group_channel_id(U64(0, 15)), TRUE, {ClientData("b", 2)})
ListSamples == {{}, {ChanG}, {ChanAll, ChanMine, ChanG}}

\* kinds only a client sends
ClientKinds == {"CliRegisterRequest", "CliCancelReg", "CliRequestChannels",
                "CliJoin", "CliLeave", "SendMsg", "DsvReq"}

From(s, m) == [m EXCEPT !.own_id = s]

ServerMessages ==
    {From(s, SrvConfirmReg(Me, ok, "e", "a")) : s \in Senders, ok \in BOOLEAN} \cup
    {From(s, SrvReturnChannels(Me, l)) : s \in Senders, l \in ListSamples} \cup
    {SrvDistributeMessage(Me, "b", "hi", id) :
        id \in {personal_channel_of(Me), personal_channel_of(2), ALL_ID,
                ChanG.channel_id}} \cup
    {Err(Me, "CHANNEL_NOT_EXISTS")} \cup
    {[to |-> Me, own_id |-> ServerId, kind |-> "DsvRes", server_id |-> sid,
      server_type |-> t] :
        sid \in {ServerId, OtherServer, 256 + ServerId}, t \in {"chat", "web"}} \cup
    {SrvChannelCreationSuccessful(Me, id) :
        id \in {ChanG.channel_id, personal_channel_of(Me)}} \cup
    {[to |-> Me, own_id |-> s, kind |-> k] :
        s \in {ServerId, 256 + ServerId}, k \in ClientKinds \cup {"None"}}

Commands ==
    ({"connect"} \X {NodeIdToString(ServerId), NodeIdToString(OtherServer), "9"} \X {""}) \cup
    ({"register"} \X {"a", "a b", "a#", "@a"} \X {""}) \cup
    ({"join"} \X {"g", "x", "#x"} \X {""}) \cup
    ({"msg"} \X {"b", "z"} \X {"hi"}) \cup
    ({"unregister", "channels", "leave", "help", "servers", "nope"} \X {""} \X {""})

Notifications ==
    {<<ServerId, "Server">>, <<OtherServer, "Server">>, <<2, "Client">>}

\* lines the user types to the client alone: plain text, text with a space, the empty line and
\* two lines that start with '/'
Lines == {"hi", "hi all", "", "/msg b hi all", "/leave"}

\* the engine of client Me returns `out`, which is recorded
Respond(out) ==
    /\ clients' = [clients EXCEPT ![Me] = out.cl]
    /\ cl_out' = [replies |-> out.replies, events |-> out.events]
    /\ UNCHANGED <<svars, net, commands, ivars>>

ClientAddNode ==
    \E n \in Notifications :
        /\ cl_in' = [op |-> "add_node", id |-> n[1], typ |-> n[2]]
        /\ Respond(add_node(clients[Me], n[1], n[2]))
ClientCommand ==
    \E c \in Commands :
        /\ cl_in' = [op |-> "command", command |-> c[1], arg |-> c[2], freeform |-> c[3]]
        /\ Respond(handle_command(clients[Me], c[1], c[2], c[3]))
ClientMessage ==
    \E m \in ServerMessages :
        /\ cl_in' = [op |-> "message", msg |-> m]
        /\ Respond(client_handle_protocol_message(clients[Me], m))

ClientText ==
    \E l \in Lines :
        /\ cl_in' = [op |-> "text", line |-> l]
        /\ Respond(handle_message(clients[Me], l))

NextClient ==
    \/ ClientAddNode
    \/ ClientCommand
    \/ ClientText
    \/ ClientMessage

SpecClient == Init /\ [][NextClient]_vars

(* ------------------ vocabulary of the client claims -------------------- *)
Session == clients[Me]
Session2 == clients'[Me]
Connected == Session.currently_connected_server
SessionUnchanged == Session2 = Session
Received(kind) == cl_in'.op = "message" /\ cl_in'.msg.kind = kind
Typing(command) == cl_in'.op = "command" /\ cl_in'.command = command
IsSystemError(e) == HasPrefix(e, "[SYSTEM] Error:")
OneSystemError(events) == Len(events) = 1 /\ IsSystemError(events[1])
\* every field of the session but the named one is as before
OnlyChanged(field) ==
    \A f \in DOMAIN Session : f # field => Session2[f] = Session[f]

\* C21: the client records a username for server s only on a successful
\* ConfirmRegistration whose envelope sender is s while s is the connected
\* server; a successful one from another sender, a failed one, and any one
\* received while not connected change no session state and raise exactly
\* one system error event.
C21_ConfirmRegistration ==
    [][Received("SrvConfirmReg") =>
          LET m == cl_in'.msg IN
          /\ cl_out'.replies = <<>>
          /\ IF m.successful /\ Connected # NoServer /\ m.own_id = Connected
             THEN /\ OnlyChanged("server_usernames")
                  /\ \A p \in Session2.server_usernames :
                        IF p[1] = Connected THEN p[2] = m.username
                        ELSE p \in Session.server_usernames
                  /\ MapHas(Session2.server_usernames, Connected)
                  /\ \A p \in Session.server_usernames :
                        p[1] # Connected => p \in Session2.server_usernames
             ELSE /\ SessionUnchanged
                  /\ OneSystemError(cl_out'.events)]_vars

\* A successful confirmation whose sender has the connected server's id in
\* its low byte only has been refused.
C21_Witness ==
    /\ cl_in.op = "message"
    /\ cl_in.msg.kind = "SrvConfirmReg"
    /\ cl_in.msg.successful
    /\ Connected = ServerId
    /\ cl_in.msg.own_id = 256 + ServerId
    /\ OneSystemError(cl_out.events)

\* C22: a ReturnChannels message replaces the cached channel list only if
\* its sender is the connected server; from any other sender the session
\* is unchanged and nothing is emitted; when no server is connected the
\* list is unchanged and exactly one error event is raised.
C22_StaleListsDiscarded ==
    [][Received("SrvReturnChannels") =>
          LET m == cl_in'.msg IN
          /\ cl_out'.replies = <<>>
          /\ IF Connected # NoServer /\ m.own_id = Connected
             THEN /\ Session2.channels_list = m.channels
                  /\ OnlyChanged("channels_list")
             ELSE IF Connected # NoServer
             THEN SessionUnchanged /\ cl_out'.events = <<>>
             ELSE SessionUnchanged /\ OneSystemError(cl_out'.events)]_vars

\* A list from another server has arrived while the client is connected and
\* caches a different list.
C22_Witness ==
    /\ cl_in.op = "message"
    /\ cl_in.msg.kind = "SrvReturnChannels"
    /\ Connected = ServerId
    /\ cl_in.msg.own_id = OtherServer
    /\ cl_in.msg.channels = {ChanG}
    /\ Session.channels_list = {ChanAll, ChanMine, ChanG}

\* C23: in every reachable client state a joined channel is set only if a
\* connected server is set and a username is cached for that server, under
\* any interleaving of user commands and inbound server messages.
C23_SessionStateMachine ==
    \A c \in Clients :
        clients[c].currently_connected_channel # NoChannel =>
            /\ clients[c].currently_connected_server # NoServer
            /\ MapHas(clients[c].server_usernames,
                      clients[c].currently_connected_server)

\* C24: after an accepted `unregister` (client connected and registered)
\* the client has sent exactly one CancelRegistration to the connected
\* server, caches no username for it and has no joined channel.
C24_UnregisterResetsSession ==
    [][(Typing("unregister") /\ Connected # NoServer
            /\ MapHas(Session.server_usernames, Connected)) =>
          /\ Len(cl_out'.replies) = 1
          /\ cl_out'.replies[1].kind = "CliCancelReg"
          /\ cl_out'.replies[1].to = Connected
          /\ Session2.currently_connected_server = Connected
          /\ ~MapHas(Session2.server_usernames, Connected)
          /\ Session2.currently_connected_channel = NoChannel]_vars

IsDirectMessage(e) == HasPrefix(e, "[@") \/ HasPrefix(e, "[IM @")

\* C25: a DistributeMessage whose channel id is the client's own personal
\* channel id raises exactly one event rendered as a direct message, never
\* the "unknown channel" warning, whatever the joined channel and the
\* cached channel list are.
C25_DirectMessageRendering ==
    [][(Received("SrvDistributeMessage")
            /\ cl_in'.msg.channel_id = Session.own_channel_id) =>
          /\ Len(cl_out'.events) = 1
          /\ IsDirectMessage(cl_out'.events[1])]_vars

\* C26, as stated: each DsvRes(server_id, type) the client receives appends
\* one entry to the discovered-servers table with no deduplication on the
\* server id, so every response makes the table one entry longer.
C26_ResponsesAccumulate ==
    [][Received("DsvRes") =>
          Cardinality(Session2.discovered_servers)
              = Cardinality(Session.discovered_servers) + 1]_vars

\* C26, amended: the discovered-servers table is keyed by server id: each
\* DsvRes(server_id, type) leaves exactly one entry for server_id (as a
\* node id), carrying the type of this response, and leaves the entries of
\* the other ids as they were; the table grows by one entry only when the
\* id was not in it.
C26_ResponsesKeyedById ==
    [][Received("DsvRes") =>
          LET id == cl_in'.msg.server_id % 256
              old == Session.discovered_servers
              new == Session2.discovered_servers IN
          /\ {p \in new : p[1] = id} = {<<id, cl_in'.msg.server_type>>}
          /\ {p \in new : p[1] # id} = {p \in old : p[1] # id}
          /\ Cardinality(new) =
                 Cardinality(old) + (IF MapHas(old, id) THEN 0 ELSE 1)
          /\ OnlyChanged("discovered_servers")
          /\ cl_out'.replies = <<>>]_vars

\* The client is connected to the server, which it could only do while the
\* table said "chat" for it, and a later response has rewritten that entry.
C26_Witness ==
    /\ cl_in.op = "message"
    /\ cl_in.msg.kind = "DsvRes"
    /\ cl_in.msg.server_id % 256 = ServerId
    /\ Connected = ServerId
    /\ Session.discovered_servers = {<<ServerId, "web">>, <<OtherServer, "chat">>}

HandledKinds == {"SrvConfirmReg", "SrvReturnChannels", "SrvChannelCreationSuccessful",
                 "SrvDistributeMessage", "DsvRes", "Err"}

\* C27: every inbound message whose kind is none of ConfirmRegistration,
\* ChannelsList, ChannelCreationSuccessful, DistributeMessage,
\* DiscoveryResponse and Error (a message with no kind included) makes the
\* client emit exactly one Error(InvalidServerMessage) addressed to the
\* message's sender, with the session unchanged.
C27_ClientProtocolHygiene ==
    [][(cl_in'.op = "message" /\ cl_in'.msg.kind \notin HandledKinds) =>
          /\ Len(cl_out'.replies) = 1
          /\ cl_out'.replies[1].kind = "Err"
          /\ cl_out'.replies[1].name = "INVALID_SRV_MESSAGE"
          /\ cl_out'.replies[1].to = cl_in'.msg.own_id % 256
          /\ SessionUnchanged]_vars

\* C28: the client emits exactly one DiscoveryRequest("chat") to a node the
\* first time it is reported with server type and none afterwards; a
\* notification for a non-server node emits nothing and does not mark the
\* node as probed; nothing else marks a node as probed.
C28_ProbeAtMostOnce ==
    [][/\ cl_in'.op = "add_node" =>
            IF cl_in'.typ = "Server" /\ cl_in'.id \notin Session.discovered_nodes
            THEN /\ Len(cl_out'.replies) = 1
                 /\ cl_out'.replies[1].kind = "DsvReq"
                 /\ cl_out'.replies[1].name = "chat"
                 /\ cl_out'.replies[1].to = cl_in'.id
                 /\ Session2.discovered_nodes = Session.discovered_nodes \cup {cl_in'.id}
                 /\ OnlyChanged("discovered_nodes")
            ELSE /\ cl_out'.replies = <<>>
                 /\ SessionUnchanged
       /\ cl_in'.op # "add_node" =>
            /\ Session2.discovered_nodes = Session.discovered_nodes
            /\ \A i \in DOMAIN cl_out'.replies : cl_out'.replies[i].kind # "DsvReq"]_vars

\* Both servers were probed, the server has been reported again, and
\* nothing was sent.
C28_Witness ==
    /\ cl_in.op = "add_node"
    /\ cl_in.typ = "Server"
    /\ cl_in.id = ServerId
    /\ cl_out.replies = <<>>
    /\ Session.discovered_nodes = {ServerId, OtherServer}

\* C29: `connect <id>` where id is a discovered server of type "chat"
\* clears the cached channel list and the joined channel, sets the
\* connected server to id and sends exactly one RequestChannels to id; the
\* username cache is left unchanged.
C29_Connect ==
    [][Typing("connect") =>
          \A p \in Session.discovered_servers :
              (p[2] = "chat" /\ NodeIdToString(p[1]) = cl_in'.arg) =>
                  /\ Session2.channels_list = {}
                  /\ Session2.currently_connected_channel = NoChannel
                  /\ Session2.currently_connected_server = p[1]
                  /\ Len(cl_out'.replies) = 1
                  /\ cl_out'.replies[1].kind = "CliRequestChannels"
                  /\ cl_out'.replies[1].to = p[1]
                  /\ Session2.server_usernames = Session.server_usernames
                  /\ Session2.discovered_servers = Session.discovered_servers
                  /\ Session2.discovered_nodes = Session.discovered_nodes]_vars

\* A registered client has connected to the other server.
C29_Witness ==
    /\ cl_in.op = "command"
    /\ cl_in.command = "connect"
    /\ cl_in.arg = NodeIdToString(OtherServer)
    /\ Connected = OtherServer
    /\ MapHas(Session.server_usernames, ServerId)
    /\ Len(cl_out.replies) = 1

\* C30: when no server is connected, each of register, unregister,
\* channels, join, leave and msg sends nothing, changes no session state
\* and raises exactly one "not connected" system message, the same for all
\* six commands.
C30_NotConnectedGuard ==
    [][(cl_in'.op = "command"
            /\ cl_in'.command \in {"register", "unregister", "channels", "join",
                                   "leave", "msg"}
            /\ Connected = NoServer) =>
          /\ cl_out'.replies = <<>>
          /\ SessionUnchanged
          /\ cl_out'.events = <<NOT_CONNECTED_TO_SERVER>>]_vars

\* A client that has a username cached for the server, but no connected
\* server any more, has typed `msg`.
C30_Witness ==
    /\ cl_in.op = "command"
    /\ cl_in.command = "msg"
    /\ Connected = NoServer
    /\ MapHas(Session.server_usernames, ServerId)
    /\ cl_out.events = <<NOT_CONNECTED_TO_SERVER>>

TypingLine(line) == cl_in'.op = "text" /\ cl_in'.line = line
\* the messages of kind `kind` among those the engine has just returned
Returned(kind) == SelectSeq(cl_out'.replies, LAMBDA m : m.kind = kind)

\* C31: the register command sends a RegisterRequest(name) to the connected
\* server if and only if the client is connected, name contains none of
\* ' ', '#', '@', and no username is cached for that server; otherwise it
\* sends nothing; in neither case does the command change the cached
\* usernames.
C31_RegisterCommand ==
    [][Typing("register") =>
          LET name == cl_in'.arg
              allowed == /\ Connected # NoServer
                         /\ ~Contains(name, " ")
                         /\ ~Contains(name, "#")
                         /\ ~Contains(name, "@")
                         /\ ~MapHas(Session.server_usernames, Connected) IN
          /\ allowed =>
                Returned("CliRegisterRequest") =
                    <<CliMsg(Connected, Me, "CliRegisterRequest", NoChannel, name, "")>>
          /\ ~allowed => cl_out'.replies = <<>>
          /\ Session2.server_usernames = Session.server_usernames]_vars

\* The register command has just sent RegisterRequest("a") to server 0 while
\* a username is cached for the other server only.
C31_Witness ==
    /\ cl_in.op = "command" /\ cl_in.command = "register" /\ cl_in.arg = "a"
    /\ \E i \in 1..Len(cl_out.replies) :
          /\ cl_out.replies[i].kind = "CliRegisterRequest"
          /\ cl_out.replies[i].name = "a"
          /\ cl_out.replies[i].to = ServerId
    /\ Session.currently_connected_server = ServerId
    /\ Session.server_usernames = {<<OtherServer, "a">>}

\* C32: `msg <user> <text>` sends exactly one SendMsg if and only if the
\* client is connected, has a cached username for that server, and <user>
\* is the username of a member of the "All" channel (id 1) in the cached
\* channel list; the SendMsg carries the personal channel id of that
\* member's node id, (id << 32) | 0x8, and the freeform remainder as text;
\* otherwise nothing is sent.  The command is given either in parts or as
\* the line "/msg b hi all", whose remainder is "hi all".
C32_DirectMessageCommand ==
    [][(Typing("msg") \/ TypingLine("/msg b hi all")) =>
          LET user == IF Typing("msg") THEN cl_in'.arg ELSE "b"
              text == IF Typing("msg") THEN cl_in'.freeform ELSE "hi all"
              all == {x \in Session.channels_list : x.channel_id = ALL_ID}
              targets == {u \in UNION {x.connected_clients : x \in all} :
                             u.username = user}
              allowed == /\ Connected # NoServer
                         /\ MapHas(Session.server_usernames, Connected)
                         /\ targets # {} IN
          /\ allowed =>
                \E u \in targets :
                    cl_out'.replies =
                        <<CliMsg(Connected, Me, "SendMsg",
                                 U64(u.id, 8), "", text)>>
          /\ ~allowed => cl_out'.replies = <<>>]_vars

\* `msg b hi` has just sent one SendMsg to the personal channel of node 2,
\* the member of "All" named "b", with the text "hi".
C32_Witness ==
    /\ cl_in.op = "command" /\ cl_in.command = "msg" /\ cl_in.arg = "b"
    /\ cl_out.replies =
           <<CliMsg(ServerId, Me, "SendMsg", personal_channel_of(2), "", "hi")>>
    /\ ChanAll \in Session.channels_list

\* C33: a line not starting with '/' sends exactly one SendMsg(joined
\* channel id, whole line) to the connected server if and only if a server
\* is connected, a username is cached for it and a joined channel is set;
\* in every other state it sends nothing and raises one system message;
\* plain text never changes the session state.
C33_PlainText ==
    [][(cl_in'.op = "text" /\ ~HasPrefix(cl_in'.line, "/")) =>
          LET allowed == /\ Connected # NoServer
                         /\ MapHas(Session.server_usernames, Connected)
                         /\ Session.currently_connected_channel # NoChannel IN
          /\ allowed =>
                cl_out'.replies =
                    <<CliMsg(Connected, Me, "SendMsg",
                             Session.currently_connected_channel, "", cl_in'.line)>>
          /\ ~allowed =>
                /\ cl_out'.replies = <<>>
                /\ Len(cl_out'.events) = 1
                /\ HasPrefix(cl_out'.events[1], "[SYSTEM]")
          /\ SessionUnchanged]_vars

\* The line "hi all" has just been sent whole to the joined group channel.
C33_Witness ==
    /\ cl_in.op = "text" /\ cl_in.line = "hi all"
    /\ cl_out.replies =
           <<CliMsg(ServerId, Me, "SendMsg", ChanG.channel_id, "", "hi all")>>
    /\ Session.currently_connected_channel = ChanG.channel_id
    /\ MapHas(Session.server_usernames, ServerId)

\* C34: every username held in the server's registry, after any sequence of
\* RegisterRequest messages the server accepts from any node, contains none
\* of the delimiter characters ' ', '#', '@'.
C34_UsernamesWellFormed ==
    \A p \in usernames :
        ~Contains(p[2], " ") /\ ~Contains(p[2], "#") /\ ~Contains(p[2], "@")

\* C35: in every reachable server state the member set of a registered
\* node's personal channel (tag 0x8) is exactly {that node}: no other node
\* becomes a member of it through Join by id or Join by name.
C35_PersonalChannelsPrivate ==
    \A n \in Nodes :
        Registered(n) => Members(personal_channel_of(n)) = {n}

\* C36: in every reachable server state every node that has a username is a
\* member of the "All" channel and of its own personal channel, and the
\* member set of the "All" channel contains only nodes that have a username.
C36_PermanentMemberships ==
    /\ \A n \in Nodes :
          Registered(n) =>
              n \in Members(ALL_ID) /\ n \in Members(personal_channel_of(n))
    /\ \A n \in Members(ALL_ID) : Registered(n)

(* ------------------- one client and one server ------------------------- *)
\* Client Me alone with the server: it learns of the server, its user types
\* connect, register and unregister lines, and messages are delivered in
\* order, in any interleaving.
SoloAddNode ==
    /\ UNCHANGED commands
    /\ ClientStep(Me, add_node(clients[Me], ServerId, "Server"))
SoloConnect ==
    \E l \in {"/connect 0", "/connect 7"} :
        Typed /\ ClientStep(Me, handle_message(clients[Me], l))
SoloRegister ==
    \E l \in {"/register a", "/register b"} :
        Typed /\ ClientStep(Me, handle_message(clients[Me], l))
SoloUnregister ==
    Typed /\ ClientStep(Me, handle_message(clients[Me], "/unregister"))

NextSolo ==
    \/ SoloAddNode
    \/ SoloConnect
    \/ SoloRegister
    \/ SoloUnregister
    \/ ServerReceive
    \/ ClientReceive

SpecSolo == Init /\ [][NextSolo]_vars

\* C37: with one client and one server, in-order delivery and any
\* interleaving of connect, register and unregister with message delivery,
\* whenever no message is in flight the client caches a username for the
\* server if and only if the server holds a registration for that client,
\* with the same username.
C37_RegistrationViewsAgree ==
    Quiescent =>
        LET cached == MapHas(clients[Me].server_usernames, ServerId) IN
        /\ cached <=> Registered(Me)
        /\ cached => MapGet(clients[Me].server_usernames, ServerId)
                         = GetByLeft(usernames, Me)

\* C38: with in-order reliable delivery and any interleaving of user
\* commands with message delivery, whenever no message is in flight a client
\* connected to the server has joined channel ch set if and only if its
\* node is a member of ch on the server, for every ch other than the "All"
\* channel and the client's personal channel.
C38_JoinedChannelViewsAgree ==
    Quiescent =>
        \A c \in Clients :
            clients[c].currently_connected_server = ServerId =>
                \A ch \in (DOMAIN channel_info
                               \cup {clients[c].currently_connected_channel})
                           \ {ALL_ID, personal_channel_of(c), NoChannel} :
                    clients[c].currently_connected_channel = ch
                        <=> c \in Members(ch)

\* C39: `connect <id>` where id is not a discovered server of type "chat"
\* sends nothing, raises exactly one "Server not found" system message, and
\* leaves the connected server, the joined channel and the cached channel
\* list unchanged.
C39_FailedConnectNoEffect ==
    [][(/\ Typing("connect")
        /\ ~\E p \in Session.discovered_servers :
               p[2] = "chat" /\ NodeIdToString(p[1]) = cl_in'.arg) =>
          /\ cl_out'.replies = <<>>
          /\ cl_out'.events = <<"[SYSTEM] Error: Server not found">>
          /\ Session2.currently_connected_server = Session.currently_connected_server
          /\ Session2.currently_connected_channel = Session.currently_connected_channel
          /\ Session2.channels_list = Session.channels_list]_vars

(* ------------------ registrations, joins and leaves -------------------- *)
\* The server handling RegisterRequest and Join messages of every node and
\* the Leave messages of one node, one message longer than in Spec.
MaxRejoin == 4
RejoinNode == 1
\* Join requests for "All" and the group channels by id, and by name
RejoinRequests ==
    ((GroupIds \cup {ALL_ID}) \X {""}) \cup ({NoChannel} \X {"a", "b"})

HandleRejoin ==
    handled < MaxRejoin /\ handled' = handled + 1 /\ UNCHANGED <<cvars, ivars, ovars>>

RejoinRegister ==
    \E own \in OwnIds, req \in Names : HandleRejoin /\ msg_cliregisterrequest(own, req)
RejoinJoin ==
    \E own \in OwnIds, req \in RejoinRequests : HandleRejoin /\ msg_clijoin(own, req[1], req[2])
RejoinLeave ==
    HandleRejoin /\ msg_clileave(RejoinNode)

NextRejoin ==
    \/ RejoinRegister
    \/ RejoinJoin
    \/ RejoinLeave

SpecRejoin == Init /\ [][NextRejoin]_vars

\* the node of the message being handled also sent the message before it
SameNodeAgain == last.own_id % 256 = Cli2
JoinsGroup ==
    /\ last'.kind = "CliJoin"
    /\ Registered(Cli2)
    /\ ResolvesById \/ ResolvesByName
    /\ Tag(ResolvedChannel) = 2

\* C40: for a registered node n and a group channel A, a Join(A) that
\* follows n's Leave, which followed its membership of A, succeeds
\* (ChannelCreationSuccessful(A), no error) and ends with n a member of A;
\* a Join(A) that follows n's same Join(A) fails with AlreadyJoined and
\* leaves n a member of A.
C40_RejoinAfterLeave ==
    [][(JoinsGroup /\ SameNodeAgain) =>
          LET A == ResolvedChannel IN
          /\ (last.kind = "CliLeave" /\ A \in last.was_in) =>
                /\ replies'[1] = SrvChannelCreationSuccessful(Cli2, A)
                /\ \A i \in DOMAIN replies' : replies'[i].kind # "Err"
                /\ Cli2 \in channel_info'[A].members
          /\ (/\ last.kind = "CliJoin"
              /\ last.channel_id = last'.channel_id
              /\ last.name = last'.name) =>
                /\ replies' = <<Err(Cli2, "CHANNEL_ALREADY_JOINED")>>
                /\ Cli2 \in channel_info[A].members
                /\ Cli2 \in channel_info'[A].members]_vars

\* Four messages were handled and the registered node 1 has just joined,
\* by its name, the only group channel: the channel existed, node 1 was in
\* "All" and its personal channel but not in the group channel, and nobody
\* else is in any channel; node 1 had created the channel and left it.
C40_Witness ==
    /\ handled = 4
    /\ last.kind = "CliJoin" /\ Cli = RejoinNode /\ last.name = "b"
    /\ Registered(Cli)
    /\ last.was_in = {ALL_ID, personal_channel_of(Cli)}
    /\ \E A \in GroupIds :
          /\ {c \in DOMAIN channel_info : Tag(c) = 2} = {A}
          /\ replies[1] = SrvChannelCreationSuccessful(Cli, A)
          /\ Len(replies) = 2 /\ replies[2].kind = "SrvReturnChannels"
    /\ \A c \in DOMAIN channel_info : channel_info[c].members = {Cli}

\* Node 1 registered, joined a group channel and has just asked to join it
\* again: the answer is the AlreadyJoined error and it is still a member.
C40_WitnessTwice ==
    /\ handled = 3
    /\ last.kind = "CliJoin" /\ Registered(Cli)
    /\ replies = <<Err(Cli, "CHANNEL_ALREADY_JOINED")>>
    /\ \E A \in GroupIds : A \in last.was_in /\ Cli \in channel_info[A].members
====
